---- MODULE Spec2Model ----
(***************************************************************************)
(* Block-Game-AI: the bitboard Board, the piece catalog and the Game       *)
(* session, modelled from src/src/board.cpp, src/src/pieces.cpp,           *)
(* src/include/pieces.hpp and src/src/game.cpp.                            *)
(*                                                                         *)
(* A uint64_t is the set of the indices (0..63) of its 1 bits: TLC's       *)
(* integers are 32 bits wide, so the 64-bit words are kept as bit sets and *)
(* the C++ operators on them are defined bit by bit.                       *)
(***************************************************************************)
EXTENDS Integers, Sequences, FiniteSets, TLC

VARIABLES
    board_,        \* Game::board_.data_  (game.hpp:75)
    hand_,         \* Game::hand_         (game.hpp:76)
    handUsed_,     \* Game::handUsed_     (game.hpp:77)
    score_,        \* Game::score_        (game.hpp:78)
    turnNumber_,   \* Game::turnNumber_   (game.hpp:79)
    gameOver_,     \* Game::gameOver_     (game.hpp:80)
    op,            \* the last public operation called on the Game, with its arguments
    ret,           \* the value that call returned (0 for a void operation)
    data_,         \* Board::data_ of a stand-alone Board (board.hpp:88)
    pre,           \* data_ as it was before the last Board operation
    lines,         \* the value the last Board operation returned
    calls,         \* the number of Board operations applied so far
    bop,           \* the names of the last two Board operations, the latest last
    shape,         \* the catalog index (PieceType) a move-generation query is about
    grid,          \* the occupancy of the Board the query is made on
    query,         \* the move-generation function called last, with its anchor
    answer,        \* the value that function returned
    run,           \* perft main: the initial board, the piece list and max_depth_limit
    depthD,        \* perft main: the loop variable d, the total depth of the search
    stack,         \* the activations of countTerminalNodes, the innermost last
    tt,            \* the TranspositionTable main owns
    result,        \* the value the top-level countTerminalNodes returned, -1 before
    counts,        \* the counts main has printed, one per finished depth
    ev,            \* what the last step of the search did
    argv,          \* perft main: argv[1] (its characters) and argv[2], as far as given
    pc,            \* perft main: where it is
    status         \* perft main: the status it returned, -1 before

gameVars  == <<board_, hand_, handUsed_, score_, turnNumber_, gameOver_, op, ret>>
boardVars == <<data_, pre, lines, calls, bop>>
genVars   == <<shape, grid, query, answer>>
mainVars  == <<argv, pc, status>>
perftVars == <<run, depthD, stack, tt, result, counts, ev, argv, pc, status>>
vars      == <<board_, hand_, handUsed_, score_, turnNumber_, gameOver_, op, ret,
               data_, pre, lines, calls, bop, shape, grid, query, answer,
               run, depthD, stack, tt, result, counts, ev, argv, pc, status>>

----------------------------------------------------------------------------
(* uint64_t arithmetic on bit sets *)

WordBits == 64

Bits == 0 .. (WordBits - 1)

\* x >> k
Shr(x, k) == { i - k : i \in { j \in x : j >= k } }

\* x << k, the bits shifted past bit 63 dropped
Shl(x, k) == { i + k : i \in { j \in x : j + k < WordBits } }

\* x & y
And(x, y) == x \cap y

\* x | y
Or(x, y) == x \cup y

\* ~x
Not(x) == Bits \ x

\* x + y modulo 2^64: the carries (x & y) << 1 are added to x ^ y until none is left
RECURSIVE Add64(_, _)
Add64(x, y) ==
    IF y = {} THEN x
    ELSE Add64((x \cup y) \ (x \cap y), Shl(x \cap y, 1))

\* x * y modulo 2^64: the sum of x << k over the 1 bits k of y
RECURSIVE Mul64(_, _)
Mul64(x, y) ==
    IF y = {} THEN {}
    ELSE LET k == CHOOSE b \in y : \A c \in y : b <= c
         IN  Add64(Shl(x, k), Mul64(x, y \ {k}))

\* __builtin_popcountll(x)
popcountll(x) == Cardinality(x)

\* 1ULL << (row * 8 + col)
bitAt(row, col) == { row * 8 + col }

----------------------------------------------------------------------------
(* Board (board.hpp, board.cpp) *)

\* 0x0101010101010101ULL
kBroadcast == { 8 * j : j \in 0 .. 7 }

\* 0xFF
LowByte == 0 .. 7

\* 255, the multiplier of row_ind
Const255 == 0 .. 7

\* The bit of the lowest full row only
rowIndLowestOnly(d) ==
    LET r1   == And(d, Shr(d, 1))
        r2   == And(r1, Shr(r1, 2))
        r3   == And(r2, Shr(r2, 4))
        full == And(r3, kBroadcast)
    IN  { b \in full : \A other \in full : b <= other }

\* The bits of the full rows, one at bit 0 of each byte.
rowInd(d) ==
    LET r1 == And(d, Shr(d, 1))
        r2 == And(r1, Shr(r1, 2))
        r3 == And(r2, Shr(r2, 4))
    IN  And(r3, kBroadcast)

\* colInd computed after the full rows have been cleared from d
colIndAfterRowClear(d) ==
    LET e  == And(d, Not(Mul64(rowInd(d), Const255)))
        c1 == And(e, Shr(e, 8))
        c2 == And(c1, Shr(c1, 16))
        c3 == And(c2, Shr(c2, 32))
    IN  And(c3, LowByte)

\* The bits of the full columns, in the low byte.
colInd(d) ==
    LET c1 == And(d, Shr(d, 8))
        c2 == And(c1, Shr(c1, 16))
        c3 == And(c2, Shr(c2, 32))
    IN  And(c3, LowByte)

\* total_mask = col_ind * kBroadcast | row_ind * 255
totalMask(d) == Or(Mul64(colInd(d), kBroadcast), Mul64(rowInd(d), Const255))

\* Board::clearFullLines: the new data_ and the value returned
clearFullLines(d) ==
    [ data  |-> And(d, Not(totalMask(d))),
      lines |-> popcountll(colInd(d)) + popcountll(rowInd(d)) ]

\* Board::setOccupied
setOccupied(d, row, col) == Or(d, bitAt(row, col))

\* Board::clearSquare
clearSquare(d, row, col) == And(d, Not(bitAt(row, col)))

\* Board::place
place(d, pieceMask) == Or(d, pieceMask)

\* Board::placeAndClear
placeAndClear(d, pieceMask) == clearFullLines(place(d, pieceMask))

\* Board::canPlace
BoardCanPlace(d, pieceMask) == And(d, pieceMask) = {}

----------------------------------------------------------------------------
(* Piece catalog (pieces.cpp, pieces.hpp) *)

\* The pattern strings of PIECES, one character per element.
Patterns ==
    <<
      <<"X", "X", "|", "X", "X">>,  \* 0: "XX|XX"  (pieces.cpp:56)
      <<"X", "X", "X", "|", "X", "X", "X", "|", "X", "X", "X">>,  \* 1: "XXX|XXX|XXX"  (pieces.cpp:57)
      <<"X", "X", "|", "X", "X", "|", "X", "X">>,  \* 2: "XX|XX|XX"  (pieces.cpp:60)
      <<"X", "X", "X", "|", "X", "X", "X">>,  \* 3: "XXX|XXX"  (pieces.cpp:61)
      <<"X", "X", "X">>,  \* 4: "XXX"  (pieces.cpp:64)
      <<"X", "X", "X", "X">>,  \* 5: "XXXX"  (pieces.cpp:65)
      <<"X", "X", "X", "X", "X">>,  \* 6: "XXXXX"  (pieces.cpp:66)
      <<"X", "|", "X", "|", "X">>,  \* 7: "X|X|X"  (pieces.cpp:69)
      <<"X", "|", "X", "|", "X", "|", "X">>,  \* 8: "X|X|X|X"  (pieces.cpp:70)
      <<"X", "|", "X", "|", "X", "|", "X", "|", "X">>,  \* 9: "X|X|X|X|X"  (pieces.cpp:71)
      <<".", "X", "X", "|", "X", "X", ".">>,  \* 10: ".XX|XX."  (pieces.cpp:75)
      <<"X", ".", "|", "X", "X", "|", ".", "X">>,  \* 11: "X.|XX|.X"  (pieces.cpp:77)
      <<"X", "X", ".", "|", ".", "X", "X">>,  \* 12: "XX.|.XX"  (pieces.cpp:79)
      <<".", "X", "|", "X", "X", "|", "X", ".">>,  \* 13: ".X|XX|X."  (pieces.cpp:81)
      <<"X", "X", "X", "|", ".", "X", ".">>,  \* 14: "XXX|.X."  (pieces.cpp:85)
      <<"X", ".", "|", "X", "X", "|", "X", ".">>,  \* 15: "X.|XX|X."  (pieces.cpp:87)
      <<".", "X", ".", "|", "X", "X", "X">>,  \* 16: ".X.|XXX"  (pieces.cpp:89)
      <<".", "X", "|", "X", "X", "|", ".", "X">>,  \* 17: ".X|XX|.X"  (pieces.cpp:91)
      <<"X", "X", "|", "X", ".">>,  \* 18: "XX|X."  (pieces.cpp:95)
      <<"X", "X", "|", ".", "X">>,  \* 19: "XX|.X"  (pieces.cpp:97)
      <<".", "X", "|", "X", "X">>,  \* 20: ".X|XX"  (pieces.cpp:99)
      <<"X", ".", "|", "X", "X">>,  \* 21: "X.|XX"  (pieces.cpp:101)
      <<"X", "X", "X", "|", "X", ".", ".", "|", "X", ".", ".">>,  \* 22: "XXX|X..|X.."  (pieces.cpp:105)
      <<"X", "X", "X", "|", ".", ".", "X", "|", ".", ".", "X">>,  \* 23: "XXX|..X|..X"  (pieces.cpp:107)
      <<".", ".", "X", "|", ".", ".", "X", "|", "X", "X", "X">>,  \* 24: "..X|..X|XXX"  (pieces.cpp:109)
      <<"X", ".", ".", "|", "X", ".", ".", "|", "X", "X", "X">>,  \* 25: "X..|X..|XXX"  (pieces.cpp:111)
      <<"X", ".", "|", "X", ".", "|", "X", "X">>,  \* 26: "X.|X.|XX"  (pieces.cpp:115)
      <<"X", "X", "X", "|", "X", ".", ".">>,  \* 27: "XXX|X.."  (pieces.cpp:117)
      <<"X", "X", "|", ".", "X", "|", ".", "X">>,  \* 28: "XX|.X|.X"  (pieces.cpp:119)
      <<".", ".", "X", "|", "X", "X", "X">>,  \* 29: "..X|XXX"  (pieces.cpp:121)
      <<".", "X", "|", ".", "X", "|", "X", "X">>,  \* 30: ".X|.X|XX"  (pieces.cpp:125)
      <<"X", ".", ".", "|", "X", "X", "X">>,  \* 31: "X..|XXX"  (pieces.cpp:127)
      <<"X", "X", "|", "X", ".", "|", "X", ".">>,  \* 32: "XX|X.|X."  (pieces.cpp:129)
      <<"X", "X", "X", "|", ".", ".", "X">>  \* 33: "XXX|..X"  (pieces.cpp:131)
    >>

\* enum PieceType: the enumerators before PIECE_COUNT, SQUARE_2X2 = 0 first
PieceType ==
    << "SQUARE_2X2", "SQUARE_3X3",
       "RECT_2X3", "RECT_3X2",
       "LINE_3X1", "LINE_4X1", "LINE_5X1", "LINE_1X3", "LINE_1X4", "LINE_1X5",
       "S_0", "S_90", "S_180", "S_270",
       "T_0", "T_90", "T_180", "T_270",
       "SMALL_CORNER_0", "SMALL_CORNER_90", "SMALL_CORNER_180", "SMALL_CORNER_270",
       "LARGE_CORNER_0", "LARGE_CORNER_90", "LARGE_CORNER_180", "LARGE_CORNER_270",
       "L_0", "L_90", "L_180", "L_270",
       "J_0", "J_90", "J_180", "J_270" >>

\* PIECE_COUNT with one enumerator missing before it
PieceCountOneShort == Len(PieceType) - 1

\* PIECE_COUNT: the value of the enumerator that follows the last shape
PIECE_COUNT == Len(PieceType)

\* NUM_PIECES = static_cast<int>(PIECE_COUNT)
NUM_PIECES == PIECE_COUNT

\* createMask: the loop over the pattern from character i on
RECURSIVE createMaskFrom(_, _, _, _, _)
createMaskFrom(p, i, row, col, mask) ==
    IF i > Len(p) THEN mask
    ELSE IF p[i] = "|" THEN createMaskFrom(p, i + 1, row + 1, 0, mask)
    ELSE IF p[i] = "X" THEN createMaskFrom(p, i + 1, row, col + 1, Or(mask, bitAt(row, col)))
    ELSE IF p[i] = "." THEN createMaskFrom(p, i + 1, row, col + 1, mask)
    ELSE createMaskFrom(p, i + 1, row, col, mask)

createMask(p) == createMaskFrom(p, 1, 0, 0, {})

\* getWidth: the loop over the pattern from character i on
RECURSIVE getWidthFrom(_, _, _, _)
getWidthFrom(p, i, maxWidth, currentWidth) ==
    IF i > Len(p) THEN (IF currentWidth > maxWidth THEN currentWidth ELSE maxWidth)
    ELSE IF p[i] = "|"
         THEN getWidthFrom(p, i + 1,
                           IF currentWidth > maxWidth THEN currentWidth ELSE maxWidth, 0)
    ELSE IF p[i] = "X" \/ p[i] = "."
         THEN getWidthFrom(p, i + 1, maxWidth, currentWidth + 1)
    ELSE getWidthFrom(p, i + 1, maxWidth, currentWidth)

getWidth(p) == getWidthFrom(p, 1, 0, 0)

\* getHeight: 1 + the number of '|'
getHeight(p) == 1 + Cardinality({ i \in 1 .. Len(p) : p[i] = "|" })

\* PieceShiftTable{}: the value-initialised table, 64 zero masks and
\* maxRow = maxCol = 0
emptyShiftTable ==
    [ masks  |-> [ idx \in 0 .. 63 |-> {} ],
      maxRow |-> 0,
      maxCol |-> 0 ]

\* One element of PIECES: the initialiser gives baseMask, width, height and the
\* name (display only, left out here) and leaves shiftTable value-initialised
makePiece(p) ==
    [ baseMask   |-> createMask(p),
      width      |-> getWidth(p),
      height     |-> getHeight(p),
      shiftTable |-> emptyShiftTable ]

\* PIECES, indexed from 0 as the vector is
PIECES == [ i \in 0 .. (Len(Patterns) - 1) |-> makePiece(Patterns[i + 1]) ]

\* getPiece
getPiece(index) == PIECES[index]

\* static_cast<unsigned>(x) for a 32-bit int x, as the pair <<bit 31, bits 0..30>>
toUnsigned(x) == IF x < 0 THEN <<1, (x + 1073741824) + 1073741824>> ELSE <<0, x>>

\* a > b on two unsigned values
unsignedGt(a, b) == a[1] > b[1] \/ (a[1] = b[1] /\ a[2] > b[2])

\* Piece::shiftTo
shiftTo(piece, row, col) ==
    IF \/ unsignedGt(toUnsigned(row), toUnsigned(piece.shiftTable.maxRow))
       \/ unsignedGt(toUnsigned(col), toUnsigned(piece.shiftTable.maxCol))
    THEN {}
    ELSE piece.shiftTable.masks[row * 8 + col]

\* Piece::shiftToUnsafe: the table entry, no bounds check
shiftToUnsafe(piece, row, col) == piece.shiftTable.masks[row * 8 + col]

----------------------------------------------------------------------------
(* Game (game.hpp, game.cpp).  A Game value is the record of its fields. *)

HAND_SIZE == 3

HandIdx == 0 .. (HAND_SIZE - 1)

\* The fields of the Game object
Self == [ board      |-> board_,
          hand       |-> hand_,
          handUsed   |-> handUsed_,
          score      |-> score_,
          turnNumber |-> turnNumber_,
          gameOver   |-> gameOver_ ]

\* canPlacePiece without the test of the zero sentinel
canPlacePieceNoSentinel(g, pieceIndex, row, col) ==
    BoardCanPlace(g.board, shiftTo(getPiece(pieceIndex), row, col))

\* Game::canPlacePiece
canPlacePiece(g, pieceIndex, row, col) ==
    LET mask == shiftTo(getPiece(pieceIndex), row, col)
    IN  IF mask = {} THEN FALSE ELSE BoardCanPlace(g.board, mask)

\* Game::canPlace
canPlace(g, handIndex, row, col) ==
    IF handIndex < 0 \/ handIndex >= HAND_SIZE \/ g.handUsed[handIndex]
    THEN FALSE
    ELSE canPlacePiece(g, g.hand[handIndex], row, col)

\* MoveGen::hasValidPlacement
hasValidPlacement(d, piece) ==
    LET maxRow == 8 - piece.height
        maxCol == 8 - piece.width
    IN  \E row \in 0 .. maxRow : \E col \in 0 .. maxCol :
            BoardCanPlace(d, shiftTo(piece, row, col))

\* Game::hasLegalMoves
hasLegalMoves(g) ==
    \E i \in HandIdx : ~g.handUsed[i] /\ hasValidPlacement(g.board, getPiece(g.hand[i]))

\* Game::checkGameOver
checkGameOver(g) ==
    IF ~hasLegalMoves(g) THEN [g EXCEPT !.gameOver = TRUE] ELSE g

\* drawHand without turnNumber_++
drawHandNoTurn(g, drawn) ==
    checkGameOver([g EXCEPT !.hand = drawn,
                            !.handUsed = [i \in HandIdx |-> FALSE]])

\* Game::drawHand; drawn is the three values dist(rng_) yields
drawHand(g, drawn) ==
    checkGameOver([g EXCEPT !.hand = drawn,
                            !.handUsed = [i \in HandIdx |-> FALSE],
                            !.turnNumber = @ + 1])

\* Game::calculateClearScore
calculateClearScore(linesCleared) == linesCleared * linesCleared * 8

\* The part of Game::placePiece after the canPlace test
placeAccepted(g, handIndex, row, col, drawn) ==
    LET piece        == getPiece(g.hand[handIndex])
        mask         == shiftTo(piece, row, col)
        placed       == place(g.board, mask)
        used         == [g.handUsed EXCEPT ![handIndex] = TRUE]
        cleared      == clearFullLines(placed)
        pointsEarned == calculateClearScore(cleared.lines)
        g1           == [g EXCEPT !.board = cleared.data,
                                  !.handUsed = used,
                                  !.score = @ + pointsEarned]
        allPlaced    == \A i \in HandIdx : used[i]
    IN  [ g   |-> IF allPlaced THEN drawHand(g1, drawn) ELSE checkGameOver(g1),
          ret |-> pointsEarned ]

\* Game::placePiece: the Game after the call and the value returned
placePiece(g, handIndex, row, col, drawn) ==
    IF ~canPlace(g, handIndex, row, col)
    THEN [ g |-> g, ret |-> 0 ]
    ELSE placeAccepted(g, handIndex, row, col, drawn)

\* Game::makeMove; move.mask is not read
makeMove(g, move, drawn) ==
    IF \/ g.gameOver
       \/ move.pieceIndex < 0
       \/ move.pieceIndex >= HAND_SIZE
       \/ g.handUsed[move.pieceIndex]
    THEN [ g |-> g, ret |-> 0 ]
    ELSE placePiece(g, move.pieceIndex, move.row, move.col, drawn)

\* Game::newTurn
newTurn(g, drawn) == drawHand(g, drawn)

\* reset without turnNumber_ = 0
resetKeepsTurnNumber(g, drawn) ==
    drawHand([g EXCEPT !.board = {},
                       !.score = 0,
                       !.gameOver = FALSE,
                       !.handUsed = [i \in HandIdx |-> FALSE]],
             drawn)

\* Game::reset
reset(g, drawn) ==
    drawHand([g EXCEPT !.board = {},
                       !.score = 0,
                       !.turnNumber = 0,
                       !.gameOver = FALSE,
                       !.handUsed = [i \in HandIdx |-> FALSE]],
             drawn)

\* Game::Game(seed)
GameCtor(drawn) ==
    drawHand([ board      |-> {},
               hand       |-> [i \in HandIdx |-> 0],
               handUsed   |-> [i \in HandIdx |-> FALSE],
               score      |-> 0,
               turnNumber |-> 0,
               gameOver   |-> FALSE ],
             drawn)

----------------------------------------------------------------------------
(* Move generation (board.cpp, game.hpp, game.cpp) *)

\* Board::Move / the arguments of the forEachValidPlacement callback
BoardMove(type, row, col, mask) ==
    [ type |-> type, row |-> row, col |-> col, mask |-> mask ]

\* Board::canPlacePiece
BoardCanPlacePiece(d, type, row, col) ==
    LET mask == shiftTo(getPiece(type), row, col)
    IN  IF mask = {} THEN FALSE ELSE BoardCanPlace(d, mask)

\* Board::getLegalMoves(const Piece&): the inner loop, from column col on
RECURSIVE getLegalMovesCols(_, _, _, _, _, _)
getLegalMovesCols(d, piece, type, row, col, moves) ==
    IF col > piece.shiftTable.maxCol THEN moves
    ELSE LET mask == shiftToUnsafe(piece, row, col)
         IN  getLegalMovesCols(d, piece, type, row, col + 1,
                 IF BoardCanPlace(d, mask)
                 THEN Append(moves, BoardMove(type, row, col, mask))
                 ELSE moves)

\* Board::getLegalMoves(const Piece&): the outer loop, from row on
RECURSIVE getLegalMovesRows(_, _, _, _, _)
getLegalMovesRows(d, piece, type, row, moves) ==
    IF row > piece.shiftTable.maxRow THEN moves
    ELSE getLegalMovesRows(d, piece, type, row + 1,
                           getLegalMovesCols(d, piece, type, row, 0, moves))

\* Board::getLegalMoves(PieceType)
BoardGetLegalMoves(d, type) == getLegalMovesRows(d, getPiece(type), type, 0, <<>>)

\* Board::countValidPlacements: the inner loop, from column col on
RECURSIVE countValidPlacementsCols(_, _, _, _, _)
countValidPlacementsCols(d, piece, row, col, count) ==
    IF col > 8 - piece.width THEN count
    ELSE countValidPlacementsCols(d, piece, row, col + 1,
             IF BoardCanPlace(d, shiftTo(piece, row, col)) THEN count + 1 ELSE count)

\* Board::countValidPlacements: the outer loop, from row on
RECURSIVE countValidPlacementsRows(_, _, _, _)
countValidPlacementsRows(d, piece, row, count) ==
    IF row > 8 - piece.height THEN count
    ELSE countValidPlacementsRows(d, piece, row + 1,
                                  countValidPlacementsCols(d, piece, row, 0, count))

\* Board::countValidPlacements
BoardCountValidPlacements(d, type) ==
    countValidPlacementsRows(d, getPiece(type), 0, 0)

\* MoveGen::forEachValidPlacement: the calls of callback(row, col, mask) the inner
\* loop makes from column col on, in order
RECURSIVE forEachValidPlacementCols(_, _, _, _, _)
forEachValidPlacementCols(d, piece, row, col, called) ==
    IF col > 8 - piece.width THEN called
    ELSE LET mask == shiftTo(piece, row, col)
         IN  forEachValidPlacementCols(d, piece, row, col + 1,
                 IF BoardCanPlace(d, mask)
                 THEN Append(called, [ row |-> row, col |-> col, mask |-> mask ])
                 ELSE called)

\* MoveGen::forEachValidPlacement: the outer loop, from row on
RECURSIVE forEachValidPlacementRows(_, _, _, _)
forEachValidPlacementRows(d, piece, row, called) ==
    IF row > 8 - piece.height THEN called
    ELSE forEachValidPlacementRows(d, piece, row + 1,
                                   forEachValidPlacementCols(d, piece, row, 0, called))

forEachValidPlacement(d, piece) == forEachValidPlacementRows(d, piece, 0, <<>>)

\* MoveGen::countValidPlacements: count++ in each callback
countValidPlacements(d, piece) == Len(forEachValidPlacement(d, piece))

\* Game::Move
GameMove(pieceIndex, row, col, mask) ==
    [ pieceIndex |-> pieceIndex, row |-> row, col |-> col, mask |-> mask ]

\* Game::getLegalMoves
getLegalMoves(g, handIndex) ==
    IF handIndex < 0 \/ handIndex >= HAND_SIZE \/ g.handUsed[handIndex] THEN <<>>
    ELSE LET called == forEachValidPlacement(g.board, getPiece(g.hand[handIndex]))
         IN  [ k \in 1 .. Len(called) |->
                 GameMove(handIndex, called[k].row, called[k].col, called[k].mask) ]

\* Game::getAllLegalMoves: the loop from slot i on
RECURSIVE getAllLegalMovesFrom(_, _, _)
getAllLegalMovesFrom(g, i, allMoves) ==
    IF i >= HAND_SIZE THEN allMoves
    ELSE getAllLegalMovesFrom(g, i + 1,
             IF ~g.handUsed[i] THEN allMoves \o getLegalMoves(g, i) ELSE allMoves)

getAllLegalMoves(g) == getAllLegalMovesFrom(g, 0, <<>>)

----------------------------------------------------------------------------
(* SmartStrategy (simulator.cpp) *)

\* simulatePlace, the loop over the rows from row r on: a full row is cleared
\* from boardMask at once and counted
RECURSIVE simulateRows(_, _, _)
simulateRows(boardMask, r, linesCleared) ==
    IF r = 8 THEN [ board |-> boardMask, lines |-> linesCleared ]
    ELSE LET rowMask == Shl(LowByte, r * 8)
         IN  IF And(boardMask, rowMask) = rowMask
             THEN simulateRows(And(boardMask, Not(rowMask)), r + 1, linesCleared + 1)
             ELSE simulateRows(boardMask, r + 1, linesCleared)

\* simulatePlace, the loop over the columns from column c on
RECURSIVE simulateCols(_, _, _)
simulateCols(boardMask, c, linesCleared) ==
    IF c = 8 THEN [ board |-> boardMask, lines |-> linesCleared ]
    ELSE LET colMask == Shl(kBroadcast, c)
         IN  IF And(boardMask, colMask) = colMask
             THEN simulateCols(And(boardMask, Not(colMask)), c + 1, linesCleared + 1)
             ELSE simulateCols(boardMask, c + 1, linesCleared)

\* SmartStrategy::simulatePlace: the new board and the lines cleared
simulatePlace(boardMask, pieceMask) ==
    LET rows == simulateRows(Or(boardMask, pieceMask), 0, 0)
    IN  simulateCols(rows.board, 0, rows.lines)

----------------------------------------------------------------------------
(* Perft (perft.cpp) *)

\* TranspositionTable::MAX_DEPTH
MAX_DEPTH == 8

\* TranspositionTable::tables after construction: one empty map per level.  A map
\* is the set of its <<board_hash, count>> entries.
ttEmpty == [ level \in 0 .. (MAX_DEPTH - 1) |-> {} ]

\* A lookup that takes an entry of any level
ttQueryAnyLevel(t, board_hash, depth) ==
    LET found == UNION { { e \in t[level] : e[1] = board_hash } : level \in DOMAIN t }
    IN  IF found # {} THEN (CHOOSE e \in found : TRUE)[2] ELSE -1

\* TranspositionTable::query
ttQuery(t, board_hash, depth) ==
    LET found == { e \in t[depth] : e[1] = board_hash }
    IN  IF found # {} THEN (CHOOSE e \in found : TRUE)[2] ELSE -1

\* TranspositionTable::store
ttStore(t, board_hash, depth, count) ==
    [ t EXCEPT ![depth] = { e \in @ : e[1] # board_hash } \cup { <<board_hash, count>> } ]

\* A clear that leaves every map as it is
ttClearNothing(t) == t

\* TranspositionTable::clear
ttClear(t) == [ level \in DOMAIN t |-> {} ]

\* What a step of the search did: the kind of step, and the board, the depth and
\* the value it was about
Event(kind, board, depth, value) ==
    [ kind |-> kind, board |-> board, depth |-> depth, value |-> value ]

\* A perft run: the initial board, the catalog indices of the pieces searched, and
\* max_depth_limit
Run(board, shapes, limit) == [ board |-> board, shapes |-> shapes, limit |-> limit ]

\* std::stoi on the characters of a string: leading white space is skipped, a
\* sign is taken, then the decimal digits; what follows them is ignored.  Without
\* a digit it throws invalid_argument, beyond the range of int out_of_range.
Digits == <<"0", "1", "2", "3", "4", "5", "6", "7", "8", "9">>
IsDigit(ch)  == \E k \in 1 .. Len(Digits) : Digits[k] = ch
DigitOf(ch)  == (CHOOSE k \in 1 .. Len(Digits) : Digits[k] = ch) - 1
\* The vertical tab, character 11: the string holds the character itself, as
\* string literals have no escape for it
VerticalTab  == ""
\* std::isspace in the "C" locale: space, \t, \n, \v, \f and \r
IsSpace(ch)  == ch \in {" ", "\t", "\n", VerticalTab, "\f", "\r"}
INT_MIN      == -2147483647 - 1

\* The digits of s from position i, accumulated as a negative number: how many
\* there are, their negated value, and whether it left the range of int
RECURSIVE stoiDigits(_, _, _, _, _)
stoiDigits(s, i, n, acc, over) ==
    IF i > Len(s) \/ ~IsDigit(s[i]) THEN [ n |-> n, acc |-> acc, over |-> over ]
    ELSE LET dg == DigitOf(s[i])
         IN  IF over \/ acc < -214748364 \/ (acc = -214748364 /\ dg > 8)
             THEN stoiDigits(s, i + 1, n + 1, acc, TRUE)
             ELSE stoiDigits(s, i + 1, n + 1, acc * 10 - dg, FALSE)

stoi(s) ==
    LET spaces == { i \in 1 .. Len(s) : \A j \in 1 .. i : IsSpace(s[j]) }
        start  == Cardinality(spaces) + 1
        signed == start <= Len(s) /\ s[start] \in {"+", "-"}
        minus  == signed /\ s[start] = "-"
        first  == IF signed THEN start + 1 ELSE start
        ds     == stoiDigits(s, first, 0, 0, FALSE)
    IN  IF ds.n = 0 THEN [ threw |-> TRUE, value |-> 0 ]
        ELSE IF ds.over \/ (~minus /\ ds.acc = INT_MIN) THEN [ threw |-> TRUE, value |-> 0 ]
        ELSE [ threw |-> FALSE, value |-> IF minus THEN ds.acc ELSE 0 - ds.acc ]

\* main: modeStr after the arguments are read
modeStrOf(args) ==
    IF Len(args) >= 2 /\ args[2] = "nearfull" THEN "nearfull" ELSE "default"

\* main: mode after the arguments are read
modeOf(args) == IF modeStrOf(args) = "nearfull" THEN "NEARFULL" ELSE "DEFAULT"

\* main: initialBoard
initialBoard(mode) ==
    IF mode = "NEARFULL" THEN { 8 * r + c : r \in 1 .. 6, c \in 1 .. 6 } ELSE {}

\* main: BASELINE, the counts of a mode for depth 0, 1, ...
BASELINE ==
    [ default  |-> <<1, 1421, 1617196, 1455574952>>,
      nearfull |-> <<1, 76, 4380, 507036, 142586120>> ]

\* main: all_passed after the counts cs were compared with BASELINE
all_passed(modeStr, cs) ==
    \A k \in 1 .. Len(cs) : k <= Len(BASELINE[modeStr]) => cs[k] = BASELINE[modeStr][k]

\* The pieces vector countTerminalNodes is given, from the catalog indices
piecesOf(shapes) == [ k \in 1 .. Len(shapes) |-> getPiece(shapes[k]) ]

\* The iterations of the three loops of countTerminalNodes, numbered in the order
\* they run: 64 * (position of the piece in pieces) + 8 * row + col
iterPiece(it) == it \div 64
iterRow(it)   == (it % 64) \div 8
iterCol(it)   == it % 8

\* The iterations that pass board.canPlace(mask)
perftPlacements(board, pieces) ==
    { it \in 0 .. (64 * Len(pieces) - 1) :
        LET piece == pieces[iterPiece(it) + 1]
        IN  /\ iterRow(it) < piece.shiftTable.maxRow + 1
            /\ iterCol(it) < piece.shiftTable.maxCol + 1
            /\ BoardCanPlace(board, shiftToUnsafe(piece, iterRow(it), iterCol(it))) }

\* next_board of an iteration: next_board.placeAndClear(mask)
nextBoard(board, pieces, it) ==
    placeAndClear(board,
                  shiftToUnsafe(pieces[iterPiece(it) + 1], iterRow(it), iterCol(it))).data

\* An activation of countTerminalNodes that has passed the two early returns:
\* its board and depth, the iterations that pass canPlace, the iteration the loops
\* are at, and total_terminal_nodes
Frame(board, depth, pieces) ==
    [ board |-> board, depth |-> depth, fits |-> perftPlacements(board, pieces),
      at |-> 0, total |-> 0 ]

\* The first iteration at or after f.at that passes canPlace, 64 * Len(pieces) if none
nextFit(f, pieces) ==
    LET rest == { it \in f.fits : it >= f.at }
    IN  IF rest = {} THEN 64 * Len(pieces)
        ELSE CHOOSE it \in rest : \A other \in rest : it <= other

\* The table used at every depth
cachedAlways(depth) == TRUE

\* The guard of the table lookup and of the table store
cached(depth) == depth < MAX_DEPTH

\* The assertion of TranspositionTable::query and TranspositionTable::store
levelInRange(t, depth) == depth >= 0 /\ depth < Cardinality(DOMAIN t)

\* countTerminalNodes up to the loops: the two early returns (max depth reached,
\* table hit), or neither; "abort" when the assertion of query fails
perftEnter(board, depth, max_depth, t) ==
    IF depth = max_depth THEN Event("leaf", board, depth, 1)
    ELSE IF cached(depth) /\ ~levelInRange(t, depth)
         THEN Event("abort", board, depth, 0)
    ELSE IF cached(depth) /\ ttQuery(t, board, depth) # -1
         THEN Event("hit", board, depth, ttQuery(t, board, depth))
    ELSE Event("expand", board, depth, 0)

\* countTerminalNodes after the loops: a node without moves counts 1
perftTotal(total) == IF total = 0 THEN 1 ELSE total

\* A store one level further down
perftStoreNextLevel(t, board, depth, total) ==
    IF depth + 1 < MAX_DEPTH THEN ttStore(t, board, depth + 1, total) ELSE t

\* countTerminalNodes after the loops: the table after the store
perftStore(t, board, depth, total) ==
    IF cached(depth) /\ levelInRange(t, depth) THEN ttStore(t, board, depth, total) ELSE t

\* countTerminalNodes after the loops: what the step does, "abort" when the
\* assertion of store fails
perftLeave(t, board, depth, total) ==
    IF cached(depth) /\ ~levelInRange(t, depth)
    THEN Event("abort", board, depth, 0)
    ELSE Event("return", board, depth, total)

----------------------------------------------------------------------------
(* Bounds and inputs *)

\* drawHand is not called once turnNumber_ has reached MaxTurn
MaxTurn == 3

Hand(a, b, c) == [i \in HandIdx |-> <<a, b, c>>[i + 1]]

\* The hands dist(rng_) yields
DrawChoices ==
    { Hand(1, 1, 1),      \* three 3x3 squares
      Hand(6, 9, 22),     \* 5x1 line, 1x5 line, large corner 0
      Hand(0, 17, 33) }   \* 2x2 square, T_270, J_270

\* The (handIndex, row, col) requests the callers make
Requests ==
    { <<0, 0, 3>>, <<1, 3, 0>>, <<2, 0, 0>>,      \* each slot, bounding box on the board
      <<0, 4, 0>>, <<2, 3, 5>>, <<1, 1, 2>>,
      <<-1, 0, 0>>, <<3, 0, 0>>,                  \* hand index outside 0..2
      <<0, -1, 0>>, <<0, 0, 8>>,                  \* anchor off the board
      <<1, 6, 0>> }                               \* anchor on the board, bounding box not

\* The requests makeMove is called with: bounding box on the board, a hand index
\* out of range, an anchor out of range
MoveRequests ==
    { <<0, 0, 3>>, <<0, 4, 0>>, <<2, 3, 5>>, <<3, 0, 0>>, <<1, 6, 0>> }

\* Move::mask, which makeMove never reads
MaskArgs == { {}, {63} }

\* The number of Board operations applied to a stand-alone Board
MaxCalls == 2

\* The stand-alone Boards are the unions of the first NumChunks entries of Chunks
NumChunks == 9

RowCells(r) == { r * 8 + c : c \in 0 .. 7 }
ColCells(c) == { r * 8 + c : r \in 0 .. 7 }

Chunks ==
    << RowCells(0),
       ColCells(0),
       RowCells(7),
       ColCells(7),
       RowCells(3) \ {3 * 8 + 4},
       ColCells(4),
       4 .. 11,
       { 1 * 8 + 1, 2 * 8 + 5, 6 * 8 + 6 },
       ColCells(2) \ {0 * 8 + 2},
       { 8 * r + 3 : r \in 0 .. 6 } \cup { 8 * 7 + 2 } >>

TestBoards ==
    { UNION { Chunks[k] : k \in S } : S \in SUBSET (1 .. NumChunks) }

\* The squares setOccupied and clearSquare are called with: the one row 3 of the
\* test occupancies lacks, the one column 2 lacks, and a corner
SquareArgs == { <<3, 4>>, <<0, 2>>, <<0, 0>> }

\* The masks place and placeAndClear are called with on a stand-alone Board: the
\* cell row 3 lacks, and a whole row, laid over what is there
PlaceArgs == { { 3 * 8 + 4 }, RowCells(5) }

----------------------------------------------------------------------------
(* The Game state machine *)

SetGame(g) ==
    /\ board_'      = g.board
    /\ hand_'       = g.hand
    /\ handUsed_'   = g.handUsed
    /\ score_'      = g.score
    /\ turnNumber_' = g.turnNumber
    /\ gameOver_'   = g.gameOver

\* A call: the operation, its arguments, isGameOver() and getTurnNumber() before
\* it, and whether a placement request was accepted
Call(name, h, r, c, over, turn, ok) ==
    [ name |-> name, h |-> h, r |-> r, c |-> c, over |-> over, turn |-> turn, ok |-> ok ]

\* A query: the function and the anchor it was called with
Query(name, row, col) == [ name |-> name, row |-> row, col |-> col ]

IdleGen ==
    /\ shape  = 0
    /\ grid   = {}
    /\ query  = Query("none", 0, 0)
    /\ answer = 0

IdlePerft ==
    /\ run    = Run({}, <<>>, 0)
    /\ depthD = 0
    /\ stack  = <<>>
    /\ tt     = ttEmpty
    /\ result = -1
    /\ counts = <<>>
    /\ ev     = Event("none", {}, 0, 0)
    /\ argv   = <<>>
    /\ pc     = "none"
    /\ status = -1

IdleBoard ==
    /\ data_ = {}
    /\ pre   = {}
    /\ lines = 0
    /\ calls = 0
    /\ bop   = <<>>

Init ==
    /\ \E drawn \in DrawChoices :
          LET g == GameCtor(drawn)
          IN  /\ board_      = g.board
              /\ hand_       = g.hand
              /\ handUsed_   = g.handUsed
              /\ score_      = g.score
              /\ turnNumber_ = g.turnNumber
              /\ gameOver_   = g.gameOver
    /\ op  = Call("Game", 0, 0, 0, FALSE, 0, FALSE)
    /\ ret = 0
    /\ IdleBoard
    /\ IdleGen
    /\ IdlePerft

\* The hands a call can draw: the RNG is consulted only when drawHand runs
DrawsOf(refill) == IF refill THEN DrawChoices ELSE { CHOOSE d \in DrawChoices : TRUE }

\* Whether placePiece(handIndex, row, col) on g calls drawHand
refills(g, handIndex, row, col) ==
    /\ canPlace(g, handIndex, row, col)
    /\ \A i \in HandIdx \ {handIndex} : g.handUsed[i]

PlacePiece ==
    \E rq \in Requests :
      \E drawn \in DrawsOf(refills(Self, rq[1], rq[2], rq[3])) :
        LET res == placePiece(Self, rq[1], rq[2], rq[3], drawn)
        IN  /\ res.g.turnNumber <= MaxTurn
            /\ SetGame(res.g)
            /\ op'  = Call("placePiece", rq[1], rq[2], rq[3], gameOver_, turnNumber_,
                           canPlace(Self, rq[1], rq[2], rq[3]))
            /\ ret' = res.ret
            /\ UNCHANGED <<boardVars, genVars, perftVars>>

MakeMove ==
    \E rq \in MoveRequests, m \in MaskArgs :
      \E drawn \in DrawsOf(refills(Self, rq[1], rq[2], rq[3])) :
        LET move == [ pieceIndex |-> rq[1], row |-> rq[2], col |-> rq[3], mask |-> m ]
            res  == makeMove(Self, move, drawn)
        IN  /\ res.g.turnNumber <= MaxTurn
            /\ SetGame(res.g)
            /\ op'  = Call("makeMove", rq[1], rq[2], rq[3], gameOver_, turnNumber_,
                           ~gameOver_ /\ canPlace(Self, rq[1], rq[2], rq[3]))
            /\ ret' = res.ret
            /\ UNCHANGED <<boardVars, genVars, perftVars>>

NewTurn ==
    \E drawn \in DrawChoices :
        /\ turnNumber_ < MaxTurn
        /\ SetGame(newTurn(Self, drawn))
        /\ op'  = Call("newTurn", 0, 0, 0, gameOver_, turnNumber_, FALSE)
        /\ ret' = 0
        /\ UNCHANGED <<boardVars, genVars, perftVars>>

Reset ==
    \E drawn \in DrawChoices :
        /\ SetGame(reset(Self, drawn))
        /\ op'  = Call("reset", 0, 0, 0, gameOver_, turnNumber_, FALSE)
        /\ ret' = 0
        /\ UNCHANGED <<boardVars, genVars, perftVars>>

Next == PlacePiece \/ MakeMove \/ NewTurn \/ Reset

Spec == Init /\ [][Next]_vars

----------------------------------------------------------------------------
(* A stand-alone Board, started from each test occupancy *)

IdleGame ==
    LET g == GameCtor(Hand(1, 1, 1))
    IN  /\ board_      = g.board
        /\ hand_       = g.hand
        /\ handUsed_   = g.handUsed
        /\ score_      = g.score
        /\ turnNumber_ = g.turnNumber
        /\ gameOver_   = g.gameOver
        /\ op  = Call("Game", 0, 0, 0, FALSE, 0, FALSE)
        /\ ret = 0

InitBoard ==
    /\ data_ \in TestBoards
    /\ pre   = data_
    /\ lines = 0
    /\ calls = 0
    /\ bop   = <<>>
    /\ IdleGame
    /\ IdleGen
    /\ IdlePerft

\* bop after the operation called name
Called(name) == IF bop = <<>> THEN <<name>> ELSE <<bop[Len(bop)], name>>

\* One operation of the Board: what it leaves in data_ and the value it returns
\* (0 for a void operation)
BoardStep(name, d, returned) ==
    /\ calls < MaxCalls
    /\ pre'   = data_
    /\ data_' = d
    /\ lines' = returned
    /\ calls' = calls + 1
    /\ bop'   = Called(name)
    /\ UNCHANGED <<gameVars, genVars, perftVars>>

ClearFullLines ==
    BoardStep("clearFullLines", clearFullLines(data_).data, clearFullLines(data_).lines)

SetOccupied ==
    \E sq \in SquareArgs :
        BoardStep("setOccupied", setOccupied(data_, sq[1], sq[2]), 0)

ClearSquare ==
    \E sq \in SquareArgs :
        BoardStep("clearSquare", clearSquare(data_, sq[1], sq[2]), 0)

Place ==
    \E m \in PlaceArgs :
        BoardStep("place", place(data_, m), 0)

PlaceAndClear ==
    \E m \in PlaceArgs :
        BoardStep("placeAndClear", placeAndClear(data_, m).data,
                  placeAndClear(data_, m).lines)

NextBoard == ClearFullLines \/ SetOccupied \/ ClearSquare \/ Place \/ PlaceAndClear

SpecBoard == InitBoard /\ [][NextBoard]_vars

----------------------------------------------------------------------------
(* Move generation on a stand-alone Board: one query per shape, board and anchor *)

\* The anchors asked for: on the board, just off it, and the extreme ints
AnchorArgs == (-2 .. 9) \cup { -2147483647, 2147483647 }

\* The occupancies the queries are made on
GenBoards ==
    { {},                                                  \* empty
      { 1 * 8 + 1, 2 * 8 + 5, 6 * 8 + 6 },                 \* three scattered cells
      { b \in Bits : ((b \div 8) + (b % 8)) % 2 = 0 },      \* checkerboard
      Bits \ { 8 * r + c : r \in 2 .. 6, c \in 0 .. 2 },     \* one 5x3 hole
      Bits \ ({ 8 * 7 + c : c \in 2 .. 7 } \cup { 8 * r + 7 : r \in 3 .. 7 }
                \cup { 8 * 6 + 6, 8 * 5 + 6, 8 * 6 + 5 }),   \* room in the last row and column
      (RowCells(3) \ {3 * 8 + 4}) \cup ColCells(5) }        \* a row and a column
\* A Game whose board is d, to call Game::canPlacePiece on
GameOn(d) == [ GameCtor(Hand(0, 0, 0)) EXCEPT !.board = d ]

InitGen ==
    /\ shape \in 0 .. (NUM_PIECES - 1)
    /\ grid \in GenBoards
    /\ query  = Query("none", 0, 0)
    /\ answer = 0
    /\ IdleGame
    /\ IdleBoard
    /\ IdlePerft

\* The call made on (shape, grid); the functions are const, grid is left as it is
Asked(name, row, col, value) ==
    /\ query.name = "none"
    /\ query'  = Query(name, row, col)
    /\ answer' = value
    /\ UNCHANGED <<shape, grid, gameVars, boardVars, perftVars>>

DoShiftTo ==
    \E row \in AnchorArgs, col \in AnchorArgs :
        Asked("shiftTo", row, col, shiftTo(getPiece(shape), row, col))

DoBoardCanPlacePiece ==
    \E row \in AnchorArgs, col \in AnchorArgs :
        Asked("Board::canPlacePiece", row, col, BoardCanPlacePiece(grid, shape, row, col))

DoGameCanPlacePiece ==
    \E row \in AnchorArgs, col \in AnchorArgs :
        Asked("Game::canPlacePiece", row, col, canPlacePiece(GameOn(grid), shape, row, col))

DoBoardGetLegalMoves ==
    Asked("Board::getLegalMoves", 0, 0, BoardGetLegalMoves(grid, shape))

DoForEachValidPlacement ==
    Asked("forEachValidPlacement", 0, 0, forEachValidPlacement(grid, getPiece(shape)))

DoBoardCountValidPlacements ==
    Asked("Board::countValidPlacements", 0, 0, BoardCountValidPlacements(grid, shape))

DoCountValidPlacements ==
    Asked("MoveGen::countValidPlacements", 0, 0, countValidPlacements(grid, getPiece(shape)))

DoHasValidPlacement ==
    Asked("hasValidPlacement", 0, 0, hasValidPlacement(grid, getPiece(shape)))

NextGen ==
    \/ DoShiftTo
    \/ DoBoardCanPlacePiece
    \/ DoGameCanPlacePiece
    \/ DoBoardGetLegalMoves
    \/ DoForEachValidPlacement
    \/ DoBoardCountValidPlacements
    \/ DoCountValidPlacements
    \/ DoHasValidPlacement

SpecMoveGen == InitGen /\ [][NextGen]_vars

----------------------------------------------------------------------------
(* The strategy's look-ahead: simulatePlace applied to a grid and a piece mask *)

\* Boards without full lines the look-ahead is asked about
SimBoards ==
    { {},
      { 1 * 8 + 1, 2 * 8 + 5, 6 * 8 + 6 },
      { 8 * 7 + c : c \in 0 .. 4 },
      { 8 * r + 7 : r \in 0 .. 4 },
      { 8 * r + c : r \in 6 .. 7, c \in 0 .. 5 },
      { 8 * r + c : r \in 0 .. 5, c \in 6 .. 7 },
      { 0 * 8 + c : c \in 3 .. 7 } \cup { 8 * r + 0 : r \in 3 .. 7 },
      ((RowCells(4) \cup ColCells(3)) \ { 8 * 3 + 3, 8 * 4 + 3 }) }

InitSimulate ==
    /\ shape \in 0 .. (NUM_PIECES - 1)
    /\ grid \in SimBoards
    /\ query  = Query("none", 0, 0)
    /\ answer = 0
    /\ IdleGame
    /\ IdleBoard
    /\ IdlePerft

\* simulatePlace as findBestMove and evaluateRemainingGreedy call it: for every
\* anchor up to 8 - height, 8 - width, on the mask shiftTo gives, unless that
\* mask covers an occupied cell of the grid
DoSimulatePlace ==
    \E row \in 0 .. 7, col \in 0 .. 7 :
        LET mask == shiftTo(getPiece(shape), row, col)
        IN  /\ row <= 8 - getPiece(shape).height
            /\ col <= 8 - getPiece(shape).width
            /\ And(grid, mask) = {}
            /\ Asked("simulatePlace", row, col, simulatePlace(grid, mask))

\* Board::placeAndClear on the same grid and piece mask
DoPlaceAndClear ==
    \E row \in 0 .. 7, col \in 0 .. 7 :
        LET mask == shiftTo(getPiece(shape), row, col)
        IN  /\ row <= 8 - getPiece(shape).height
            /\ col <= 8 - getPiece(shape).width
            /\ BoardCanPlace(grid, mask)
            /\ Asked("placeAndClear", row, col,
                     [ board |-> placeAndClear(grid, mask).data,
                       lines |-> placeAndClear(grid, mask).lines ])

NextSimulate == DoSimulatePlace \/ DoPlaceAndClear

SpecSimulate == InitSimulate /\ [][NextSimulate]_vars

----------------------------------------------------------------------------
(* perft main: one top-level search for each depth d = 0 .. max_depth_limit *)

\* The largest max_depth_limit of a run on the corridor board
MaxPerftDepth == 10

\* getAllPieces(), as catalog indices
AllShapes == [ k \in 1 .. Len(Patterns) |-> k - 1 ]

\* The nearfull preset of main: rows 1..6 x cols 1..6 occupied
NearFullBoard == { 8 * r + c : r \in 1 .. 6, c \in 1 .. 6 }

\* The start grid of the two-piece run: row 0 free, rows 1..7 with two occupied
\* cells each (columns 3 and 7 in odd rows, 2 and 6 in even rows)
CorridorBoard ==
    { 8 * r + c : r \in {1, 3, 5, 7}, c \in {3, 7} } \cup
    { 8 * r + c : r \in {2, 4, 6}, c \in {2, 6} }

\* Command lines of perft: the characters of argv[1], then argv[2] if given
PerftArgv ==
    { << <<"0">> >>,
      << <<"1">> >>,
      << <<"1">>, "default" >>,
      << <<"1">>, "nearfull" >>,
      << <<"2">>, "nearfull" >>,
      << <<"1">>, "full" >>,
      << <<" ", "+", "1">> >>,
      << <<"\f", VerticalTab, "\r", "1">>, "nearfull" >>,
      << <<"1", "x">>, "nearfull" >>,
      << <<"-", "1">> >>,
      << <<"-", "2">>, "nearfull" >>,
      << <<"a", "b", "c">> >>,
      << <<>>, "nearfull" >>,
      << <<"-">> >>,
      << <<"2", "1", "4", "7", "4", "8", "3", "6", "4", "8">> >> }

\* The runs of main, and of countTerminalNodes with a shorter piece list
PerftRuns ==
    { Run({}, AllShapes, 1),
      Run(NearFullBoard, AllShapes, 2),
      Run(CorridorBoard, <<5, 8>>, MaxPerftDepth) }

InitPerft ==
    /\ \/ run \in PerftRuns /\ argv = <<>> /\ pc = "loop"
       \/ run = Run({}, <<>>, 0) /\ argv \in PerftArgv /\ pc = "main"
    /\ status = -1
    /\ depthD = 0
    /\ stack  = <<>>
    /\ tt     = ttEmpty
    /\ result = -1
    /\ counts = <<>>
    /\ ev     = Event("none", {}, 0, 0)
    /\ IdleGame
    /\ IdleBoard
    /\ IdleGen

\* main calls countTerminalNodes(initialBoard, 0, d, pieces, tt)
PerftCall ==
    /\ pc = "loop"
    /\ ev.kind # "abort"
    /\ depthD <= run.limit
    /\ result = -1
    /\ stack = <<>>
    /\ LET e == perftEnter(run.board, 0, depthD, tt)
       IN  /\ ev' = e
           /\ IF e.kind = "expand"
              THEN /\ stack' = << Frame(run.board, 0, piecesOf(run.shapes)) >>
                   /\ result' = result
              ELSE /\ stack' = stack
                   /\ result' = IF e.kind = "abort" THEN result ELSE e.value
    /\ UNCHANGED <<run, depthD, tt, counts, mainVars, gameVars, boardVars, genVars>>

\* The loops of the innermost activation reach the next placement that fits and
\* call countTerminalNodes(next_board, depth + 1, ...), which returns at once or
\* becomes the innermost activation
PerftDescend ==
    /\ stack # <<>>
    /\ ev.kind # "abort"
    /\ LET n      == Len(stack)
           f      == stack[n]
           pieces == piecesOf(run.shapes)
           it     == nextFit(f, pieces)
       IN  /\ it < 64 * Len(pieces)
           /\ LET child == nextBoard(f.board, pieces, it)
                  e     == perftEnter(child, f.depth + 1, depthD, tt)
              IN  /\ ev' = e
                  /\ IF e.kind = "expand"
                     THEN stack' = Append([stack EXCEPT ![n].at = it + 1],
                                          Frame(child, f.depth + 1, pieces))
                     ELSE IF e.kind = "abort" THEN stack' = stack
                     ELSE stack' = [stack EXCEPT ![n].at = it + 1,
                                                 ![n].total = @ + e.value]
    /\ UNCHANGED <<run, depthD, tt, result, counts, mainVars, gameVars, boardVars, genVars>>

\* The loops of the innermost activation are over: it stores its total and
\* returns it to its caller
PerftReturn ==
    /\ stack # <<>>
    /\ ev.kind # "abort"
    /\ LET n      == Len(stack)
           f      == stack[n]
           pieces == piecesOf(run.shapes)
           total  == perftTotal(f.total)
       IN  /\ nextFit(f, pieces) = 64 * Len(pieces)
           /\ tt' = perftStore(tt, f.board, f.depth, total)
           /\ ev' = perftLeave(tt, f.board, f.depth, total)
           /\ IF perftLeave(tt, f.board, f.depth, total).kind = "abort"
              THEN /\ stack' = stack
                   /\ result' = result
              ELSE IF n = 1
              THEN /\ stack' = <<>>
                   /\ result' = total
              ELSE /\ stack' = [ SubSeq(stack, 1, n - 1) EXCEPT ![n - 1].total = @ + total ]
                   /\ result' = result
    /\ UNCHANGED <<run, depthD, counts, mainVars, gameVars, boardVars, genVars>>

\* main prints the count, clears the table and goes on to the next depth
PerftNextDepth ==
    /\ result # -1
    /\ counts' = Append(counts, result)
    /\ tt'     = ttClear(tt)
    /\ depthD' = depthD + 1
    /\ result' = -1
    /\ ev'     = Event("clear", run.board, 0, result)
    /\ UNCHANGED <<run, stack, mainVars, gameVars, boardVars, genVars>>

\* main up to the depth loop: the arguments are read, the board and the pieces
\* set up; an argument stoi throws on makes main return 1
PerftMain ==
    /\ pc = "main"
    /\ LET parsed == IF Len(argv) >= 1 THEN stoi(argv[1]) ELSE [ threw |-> FALSE, value |-> 2 ]
       IN  IF parsed.threw
           THEN /\ pc' = "exit"
                /\ status' = 1
                /\ run' = run
           ELSE /\ pc' = "loop"
                /\ status' = status
                /\ run' = Run(initialBoard(modeOf(argv)), AllShapes, parsed.value)
    /\ UNCHANGED <<depthD, stack, tt, result, counts, ev, argv, gameVars, boardVars, genVars>>

\* main after the depth loop: return all_passed ? 0 : 1
PerftExit ==
    /\ pc = "loop"
    /\ argv # <<>>
    /\ depthD > run.limit
    /\ result = -1
    /\ pc' = "exit"
    /\ status' = IF all_passed(modeStrOf(argv), counts) THEN 0 ELSE 1
    /\ UNCHANGED <<run, depthD, stack, tt, result, counts, ev, argv, gameVars, boardVars, genVars>>

NextPerft ==
    PerftMain \/ PerftCall \/ PerftDescend \/ PerftReturn \/ PerftNextDepth \/ PerftExit

SpecPerft == InitPerft /\ [][NextPerft]_vars

----------------------------------------------------------------------------
(* The Game and the perft search side by side: a behaviour is a Game driven
   through its public operations, or a run of perft *)

InitGamePerft == Init \/ InitPerft

GameStep == pc = "none" /\ Next

NextGamePerft == GameStep \/ NextPerft

SpecGamePerft == InitGamePerft /\ [][NextGamePerft]_vars

----------------------------------------------------------------------------
(* Reference semantics the claims are stated against, cell by cell *)

coreVars == <<board_, hand_, handUsed_, score_, turnNumber_, gameOver_>>

\* The rows and the columns of d that are entirely set
FullRows(d) == { r \in 0 .. 7 : \A c \in 0 .. 7 : (r * 8 + c) \in d }
FullCols(d) == { c \in 0 .. 7 : \A r \in 0 .. 7 : (r * 8 + c) \in d }

\* The cells of the full rows and of the full columns of d
LineCells(d) ==
    LET rows == FullRows(d)
        cols == FullCols(d)
    IN  { b \in Bits : (b \div 8) \in rows \/ (b % 8) \in cols }

RefCleared(d) == d \ LineCells(d)

RefLines(d) == Cardinality(FullRows(d)) + Cardinality(FullCols(d))

\* The filled cells <<dr, dc>> of a shape's base pattern
RefCells(pieceIndex) ==
    { <<b \div 8, b % 8>> : b \in getPiece(pieceIndex).baseMask }

\* The bounding box of the shape anchored at (row, col) lies on the board
RefOnBoard(pieceIndex, row, col) ==
    /\ row >= 0
    /\ col >= 0
    /\ row + getPiece(pieceIndex).height <= 8
    /\ col + getPiece(pieceIndex).width <= 8

\* The cells the shape anchored at (row, col) covers
RefMask(pieceIndex, row, col) ==
    { (row + rc[1]) * 8 + (col + rc[2]) : rc \in RefCells(pieceIndex) }

\* The request names an unused slot of the hand and a free place on the board
RefLegal(g, h, r, c) ==
    /\ h \in HandIdx
    /\ ~g.handUsed[h]
    /\ RefOnBoard(g.hand[h], r, c)
    /\ RefMask(g.hand[h], r, c) \cap g.board = {}

\* Some unused slot has a legal placement
RefSomeLegal(g) ==
    \E h \in HandIdx, r \in 0 .. 7, c \in 0 .. 7 : RefLegal(g, h, r, c)

\* The pattern read directly: the row and the column of its character i
PatRow(p, i) == Cardinality({ j \in 1 .. (i - 1) : p[j] = "|" })
PatCol(p, i) ==
    LET bars == { j \in 1 .. (i - 1) : p[j] = "|" }
        last == IF bars = {} THEN 0 ELSE CHOOSE j \in bars : \A k \in bars : k <= j
    IN  i - last - 1

\* The filled cells <<dr, dc>> of a pattern, and the size of its bounding box
PatCells(p)  == { <<PatRow(p, i), PatCol(p, i)>> : i \in { j \in 1 .. Len(p) : p[j] = "X" } }
PatHeight(p) == 1 + PatRow(p, Len(p))
PatWidth(p)  ==
    LET ends == { PatCol(p, i) + 1 : i \in { j \in 1 .. Len(p) : p[j] # "|" } }
    IN  CHOOSE w \in ends : \A v \in ends : v <= w

\* The images of a set of cells under the rotations and reflections of the plane,
\* each moved back to the origin
Normalised(cells) ==
    LET r0 == CHOOSE r \in { rc[1] : rc \in cells } : \A rc \in cells : r <= rc[1]
        c0 == CHOOSE c \in { rc[2] : rc \in cells } : \A rc \in cells : c <= rc[2]
    IN  { <<rc[1] - r0, rc[2] - c0>> : rc \in cells }
Turned(cells)  == Normalised({ <<rc[2], 0 - rc[1]>> : rc \in cells })
Flipped(cells) == Normalised({ <<rc[1], 0 - rc[2]>> : rc \in cells })
Images(cells) ==
    LET t1 == Turned(cells)
        t2 == Turned(t1)
        t3 == Turned(t2)
        f0 == Flipped(cells)
        f1 == Turned(f0)
        f2 == Turned(f1)
        f3 == Turned(f2)
    IN  { Normalised(cells), t1, t2, t3, f0, f1, f2, f3 }

\* The shape with catalog index i fills its h x w bounding box
FilledBox(i, h, w) ==
    PatCells(Patterns[i + 1]) = { <<r, c>> : r \in 0 .. (h - 1), c \in 0 .. (w - 1) }

\* The make-up of the catalog: two squares, two rectangles, three horizontal and
\* three vertical lines, then six families of four orientations of one piece
CatalogMakeUp ==
    /\ Len(Patterns) >= 34
    /\ FilledBox(0, 2, 2) /\ FilledBox(1, 3, 3)
    /\ FilledBox(2, 3, 2) /\ FilledBox(3, 2, 3)
    /\ FilledBox(4, 1, 3) /\ FilledBox(5, 1, 4) /\ FilledBox(6, 1, 5)
    /\ FilledBox(7, 3, 1) /\ FilledBox(8, 4, 1) /\ FilledBox(9, 5, 1)
    /\ \A k \in 0 .. 5 :
          LET family == { PatCells(Patterns[10 + 4 * k + j + 1]) : j \in 0 .. 3 }
          IN  /\ Cardinality(family) = 4
              /\ family \subseteq Images(PatCells(Patterns[10 + 4 * k + 1]))
    /\ Cardinality({ PatCells(Patterns[i]) : i \in 1 .. Len(Patterns) }) = Len(Patterns)

\* The cells the pattern of catalog shape i covers when anchored at (row, col)
PatMask(i, row, col) ==
    { (row + rc[1]) * 8 + (col + rc[2]) : rc \in PatCells(Patterns[i + 1]) }

\* The anchors at which catalog shape i lies on the board and on free cells of d
LegalAnchors(d, i) ==
    { rc \in (0 .. (8 - PatHeight(Patterns[i + 1]))) \X (0 .. (8 - PatWidth(Patterns[i + 1]))) :
        PatMask(i, rc[1], rc[2]) \cap d = {} }

\* The sequence of moves or callbacks lists exactly the legal anchors of shape i
\* on d, each once, in row-major order, each with its mask
ListsLegalAnchors(moves, d, i) ==
    /\ Len(moves) = Cardinality(LegalAnchors(d, i))
    /\ { <<moves[k].row, moves[k].col>> : k \in 1 .. Len(moves) } = LegalAnchors(d, i)
    /\ \A k \in 1 .. (Len(moves) - 1) :
          moves[k].row * 8 + moves[k].col < moves[k + 1].row * 8 + moves[k + 1].col
    /\ \A k \in 1 .. Len(moves) : moves[k].mask = PatMask(i, moves[k].row, moves[k].col)

\* Game::getLegalMoves(h) on g lists, each once and tagged with h, exactly the
\* anchors for which Game::canPlace(h, row, col) is true; for an index outside
\* 0..2 or a used slot the list is empty and canPlace is false everywhere
MovesMatchCanPlace(g, h) ==
    LET moves   == getLegalMoves(g, h)
        anchors == { rc \in (-1 .. 8) \X (-1 .. 8) : canPlace(g, h, rc[1], rc[2]) }
    IN  /\ { <<moves[k].row, moves[k].col>> : k \in 1 .. Len(moves) } = anchors
        /\ Len(moves) = Cardinality(anchors)
        /\ \A k \in 1 .. Len(moves) : moves[k].pieceIndex = h
        /\ (h \notin HandIdx \/ g.handUsed[h]) => (moves = <<>> /\ anchors = {})

\* The result of placePiece for a move of the list, for every hand it can draw
PlacedMoves(g, m) ==
    { placePiece(g, m.pieceIndex, m.row, m.col, drawn) :
        drawn \in DrawsOf(refills(g, m.pieceIndex, m.row, m.col)) }

\* countTerminalNodes with the table lookup and the table store left out: the
\* same loops, each child that fits counted by the same recursion
RECURSIVE countTerminalNodesNoMemo(_, _, _, _)
countTerminalNodesNoMemo(board, depth, max_depth, pieces) ==
    IF depth = max_depth THEN 1
    ELSE LET fits == perftPlacements(board, pieces)
             leaves == UNION { { <<it, leaf>> :
                                   leaf \in 1 .. countTerminalNodesNoMemo(
                                                    nextBoard(board, pieces, it),
                                                    depth + 1, max_depth, pieces) } :
                               it \in fits }
         IN  perftTotal(Cardinality(leaves))

\* The plays on grid g: a catalog shape and a legal anchor of it
RefPlays(g) ==
    UNION { { <<i, rc>> : rc \in LegalAnchors(g, i) } : i \in 0 .. (Len(Patterns) - 1) }

\* The grid a play produces: the cells of the shape added, the full lines emptied
RefPlayed(g, play) == RefCleared(g \cup PatMask(play[1], play[2][1], play[2][2]))

\* The sum, over the plays on g, of what count gives for the grid produced with
\* one less remaining depth
RECURSIVE RefLeafSum(_, _)
RefLeafSum(g, remaining) ==
    IF remaining = 0 THEN 1
    ELSE Cardinality(UNION { { <<play, leaf>> :
                                 leaf \in 1 .. RefLeafSum(RefPlayed(g, play), remaining - 1) } :
                             play \in RefPlays(g) })

\* The search runs over the full catalog, as main runs it
FullCatalogRun == run.shapes = AllShapes /\ run.shapes # <<>>

\* The Board operation called last, "none" before the first
LastBoardOp == IF bop = <<>> THEN "none" ELSE bop[Len(bop)]

\* Slot h is the only unused slot
LastSlot(g, h) == \A i \in HandIdx \ {h} : g.handUsed[i]

IsPlacement(call) == call.name \in {"placePiece", "makeMove"}

----------------------------------------------------------------------------
(* What every reachable state has in common.  The shift table of every element
   of PIECES is value-initialised, so Piece::shiftTo returns 0 at every anchor:
   canPlacePiece, which refuses the zero mask, refuses every request, and
   hasValidPlacement, which passes the zero mask to Board::canPlace, finds a
   placement for every shape on every board. *)

\* No Game accepts a placement or becomes terminal: the board stays empty, the
\* score 0, no slot is used and every placement call returns 0
NoPlacementIsAccepted ==
    /\ board_ = {}
    /\ score_ = 0
    /\ \A i \in HandIdx : ~handUsed_[i]
    /\ ~gameOver_
    /\ hasLegalMoves(Self)
    /\ ~op.ok
    /\ ret = 0

\* Every activation of countTerminalNodes tries one anchor per piece, the zero
\* mask at (0, 0), which fits on any grid: the grid of a search never changes
PerftGridNeverChanges ==
    /\ \A k \in 1 .. Len(stack) :
          /\ stack[k].board = run.board
          /\ stack[k].fits = { 64 * j : j \in 0 .. (Len(run.shapes) - 1) }
    /\ ev.kind # "none" => ev.board = run.board

----------------------------------------------------------------------------
(* Claims *)

\* C1: clearFullLines removes exactly the cells of the rows and of the columns
\* that were entirely set before the call (an intersecting row and column both),
\* leaves every other cell as it was, and returns #full rows + #full columns.
C1_ClearFullLines ==
    LastBoardOp = "clearFullLines" =>
        /\ data_ = RefCleared(pre)
        /\ lines = RefLines(pre)

\* C1 witness: a full row and a full column, which intersect, were cleared in one
\* call and other cells were left on the board.
C1_Witness ==
    /\ LastBoardOp = "clearFullLines"
    /\ FullRows(pre) # {}
    /\ FullCols(pre) # {}
    /\ lines >= 2
    /\ data_ # {}

\* C2 as claimed: in a state where isGameOver() is true, placePiece returns 0 and
\* leaves board, score, hand, used-flags and turn number unchanged.
C2_TerminalRejectsPlacePiece ==
    [][ (gameOver_ /\ op'.name = "placePiece")
            => (ret' = 0 /\ UNCHANGED coreVars) ]_vars

\* C3: when hasLegalMoves() is false, a placePiece or makeMove call with any
\* arguments returns 0, leaves score, board, hand and used-flags unchanged, and
\* hasLegalMoves() is still false after it (so this holds for every further
\* placement call in a row).
C3_NoLegalMovesAbsorbs ==
    [][ (IsPlacement(op') /\ ~hasLegalMoves(Self))
            => /\ ret' = 0
               /\ UNCHANGED <<board_, score_, hand_, handUsed_>>
               /\ ~hasLegalMoves(Self)' ]_vars

\* C4: a placePiece request that is invalid (hand index outside 0..2, slot used,
\* bounding box off the board, or a cell already occupied) returns 0 and leaves
\* board, score, hand, used-flags, turn number and terminal flag as they were.
C4_InvalidRequestIsNoOp ==
    [][ (op'.name = "placePiece" /\ ~RefLegal(Self, op'.h, op'.r, op'.c))
            => (ret' = 0 /\ UNCHANGED coreVars) ]_vars

\* C4 witness: a request with a negative row for an unused slot has just been
\* rejected in the third turn.
C4_Witness ==
    /\ op.name = "placePiece"
    /\ ~op.ok
    /\ op.h \in HandIdx
    /\ ~handUsed_[op.h]
    /\ op.r < 0
    /\ op.turn = 3
    /\ turnNumber_ = 3
    /\ ret = 0

\* C5 as claimed: a legal placePiece sets the board to old board | mask with the
\* full lines cleared, leaves the slot marked used, adds 8*n*n to the score and
\* returns 8*n*n, n the number of lines cleared.
C5_LegalPlacementEffect ==
    [][ (op'.name = "placePiece" /\ RefLegal(Self, op'.h, op'.r, op'.c))
            => LET placed == board_ \cup RefMask(hand_[op'.h], op'.r, op'.c)
                   n      == RefLines(placed)
               IN  /\ board_' = RefCleared(placed)
                   /\ handUsed_'[op'.h]
                   /\ score_' = score_ + 8 * n * n
                   /\ ret' = 8 * n * n ]_vars

\* C6: at every operation boundary, if no unused hand slot has a legal placement
\* on the current board then isGameOver() is true.
C6_NoMoveMeansGameOver ==
    ~RefSomeLegal(Self) => gameOver_

\* C7: right after construction the turn number is 1, and right after reset() the
\* board is empty, the score is 0, the three used-flags are false, the turn
\* number is 1 again and isGameOver() is false.
C7_ResetRestoresInitialState ==
    /\ op.name = "Game" => turnNumber_ = 1
    /\ op.name = "reset" =>
          /\ board_ = {}
          /\ score_ = 0
          /\ \A i \in HandIdx : ~handUsed_[i]
          /\ turnNumber_ = 1
          /\ ~gameOver_
          /\ RefSomeLegal(Self)
          /\ \A p \in 0..(NUM_PIECES - 1) : hasValidPlacement({}, getPiece(p))

\* C7 witness: reset() has just been called on a Game in its third turn, and the
\* turn number is 1 again.
C7_Witness ==
    /\ op.name = "reset"
    /\ op.turn = 3
    /\ turnNumber_ = 1
    /\ ~gameOver_

\* C8: the terminal flag, once true, stays true across placePiece, makeMove and
\* newTurn; only reset() makes it false again.
C8_GameOverIsSticky ==
    [][ (gameOver_ /\ op'.name # "reset") => gameOver_' ]_vars

\* C9: every operation other than reset leaves the score unchanged or increases
\* it by a multiple of 8.
C9_ScoreMonotone ==
    [][ op'.name # "reset"
            => (score_' >= score_ /\ (score_' - score_) % 8 = 0) ]_vars

\* C10: the turn number is 1 after the draw in reset, is increased by exactly 1 by
\* newTurn and by an accepted placement that uses the last unused slot, and is
\* left unchanged by every other call (rejected placements, accepted placements
\* that leave a slot unused).
C10_TurnCountsRefills ==
    [][ turnNumber_' =
          IF op'.name = "reset" THEN 1
          ELSE IF op'.name = "newTurn" THEN turnNumber_ + 1
          ELSE IF /\ RefLegal(Self, op'.h, op'.r, op'.c)
                  /\ (op'.name = "makeMove" => ~gameOver_)
                  /\ LastSlot(Self, op'.h)
               THEN turnNumber_ + 1
               ELSE turnNumber_ ]_vars

\* C10 witness: newTurn() has refilled the hand of a Game in its second turn and
\* the turn number is 3.
C10_Witness ==
    /\ op.name = "newTurn"
    /\ op.turn = 2
    /\ turnNumber_ = 3
    /\ \A i \in HandIdx : ~handUsed_[i]

\* C11: an accepted placePiece that leaves a slot unused sets only that slot's
\* used-flag and leaves the hand and the other used-flags as they were; one that
\* uses the last unused slot replaces the hand by a fresh draw with the three
\* used-flags false.  Before and after every call some used-flag is false.
C11_HandFrame ==
    [][ /\ (op'.name = "placePiece" /\ op'.ok)
            => IF LastSlot(Self, op'.h)
               THEN /\ hand_' \in DrawChoices
                    /\ \A i \in HandIdx : ~handUsed_'[i]
               ELSE /\ hand_' = hand_
                    /\ handUsed_' = [handUsed_ EXCEPT ![op'.h] = TRUE]
        /\ \E i \in HandIdx : ~handUsed_[i]
        /\ \E i \in HandIdx : ~handUsed_'[i] ]_vars

\* C12: for the catalog shape, the shift table has maxRow = 8 - height and
\* maxCol = 8 - width, and at every anchor (r, c) in [0, maxRow] x [0, maxCol] the
\* table mask (which shiftTo returns) is the set of cells (r + dr, c + dc) for the
\* filled cells (dr, dc) of the pattern: as many cells as the pattern has, all on
\* the board, none wrapped into another row.
C12_ShiftTableMatchesPattern ==
    LET p     == Patterns[shape + 1]
        table == getPiece(shape).shiftTable
        cells == PatCells(p)
    IN  /\ table.maxRow = 8 - PatHeight(p)
        /\ table.maxCol = 8 - PatWidth(p)
        /\ (/\ query.name = "shiftTo"
            /\ query.row \in 0 .. table.maxRow
            /\ query.col \in 0 .. table.maxCol)
           => /\ answer = table.masks[query.row * 8 + query.col]
              /\ answer = { (query.row + rc[1]) * 8 + (query.col + rc[2]) : rc \in cells }
              /\ Cardinality(answer) = Cardinality(cells)
              /\ \A rc \in cells : query.row + rc[1] <= 7 /\ query.col + rc[2] <= 7

\* C13: for the catalog shape and any anchor, negative and above 7 included,
\* shiftTo returns 0 iff the anchor is outside [0, 8 - height] x [0, 8 - width];
\* Board::canPlacePiece and Game::canPlacePiece return false for every anchor
\* outside that range, on the empty board too.
C13_ZeroSentinelIffOutOfBounds ==
    LET p       == Patterns[shape + 1]
        inRange == /\ query.row \in 0 .. (8 - PatHeight(p))
                   /\ query.col \in 0 .. (8 - PatWidth(p))
    IN  /\ query.name = "shiftTo" => ((answer = {}) <=> ~inRange)
        /\ (query.name \in {"Board::canPlacePiece", "Game::canPlacePiece"} /\ ~inRange)
              => answer = FALSE

\* C14 as claimed: the catalog has exactly 33 shapes (NUM_PIECES and the size of
\* the piece list are both 33): two squares, two rectangles, three horizontal and
\* three vertical lines, four orientations each of S, T, small corner, large
\* corner, L and J.
C14_CatalogHas33Shapes ==
    /\ NUM_PIECES = 33
    /\ Cardinality(DOMAIN PIECES) = 33
    /\ shape \in DOMAIN PIECES
    /\ CatalogMakeUp

\* C14 amended: the same make-up, which is 2 + 2 + 3 + 3 + 6 * 4 = 34 shapes:
\* NUM_PIECES and the size of the piece list are both 34, and every index a
\* query uses is an index of the list.
C14_CatalogHas34Shapes ==
    /\ NUM_PIECES = 34
    /\ Cardinality(DOMAIN PIECES) = 34
    /\ DOMAIN PIECES = 0 .. (NUM_PIECES - 1)
    /\ shape \in DOMAIN PIECES
    /\ CatalogMakeUp

\* C14 witness: the shape with index 33, J_270 ("XXX|..X"), has been looked up
\* and queried: its base mask is the cells (0,0), (0,1), (0,2), (1,2).
C14_Witness ==
    /\ shape = 33
    /\ PieceType[shape + 1] = "J_270"
    /\ query.name = "Board::countValidPlacements"
    /\ getPiece(shape).baseMask = { 0, 1, 2, 10 }
    /\ getPiece(shape).width = 3
    /\ getPiece(shape).height = 2

\* C15: Board::getLegalMoves and MoveGen::forEachValidPlacement yield exactly the
\* anchors in [0, 8 - height] x [0, 8 - width] at which the shape covers no
\* occupied cell, each once, in row-major order, and leave the board as it is.
C15_EnumeratesLegalAnchors ==
    [][ query'.name \in {"Board::getLegalMoves", "forEachValidPlacement"}
            => /\ ListsLegalAnchors(answer', grid, shape)
               /\ query'.name = "Board::getLegalMoves"
                     => \A k \in 1 .. Len(answer') : answer'[k].type = shape
               /\ grid' = grid
               /\ shape' = shape ]_vars

\* C16: Board::countValidPlacements and MoveGen::countValidPlacements return the
\* number of moves Board::getLegalMoves returns for the same board and shape, and
\* MoveGen::hasValidPlacement is true iff that number is greater than 0.
C16_CountsAgreeWithEnumeration ==
    LET n == Len(BoardGetLegalMoves(grid, shape))
    IN  /\ query.name = "Board::countValidPlacements" => answer = n
        /\ query.name = "MoveGen::countValidPlacements" => answer = n
        /\ query.name = "hasValidPlacement" => (answer <=> n > 0)

\* The Game has just been constructed or changed by the last call.  A rejected
\* placement leaves the Game as it was (C4), so every reachable value of the Game
\* occurs in such a state.
JustChanged == op.ok \/ ~IsPlacement(op)

\* C17 as claimed: for every hand index, Game::getLegalMoves lists exactly the
\* moves for which Game::canPlace is true (none for an index outside 0..2 or a used
\* slot), and after placePiece on any move of the list the slot is marked used.
C17_LegalMovesAreAccepted ==
    \A h \in -1 .. HAND_SIZE :
        /\ MovesMatchCanPlace(Self, h)
        /\ JustChanged =>
             LET moves == getLegalMoves(Self, h)
             IN  \A k \in 1 .. Len(moves) :
                   \A res \in PlacedMoves(Self, moves[k]) : res.g.handUsed[h]

\* C18: hasLegalMoves() is true iff some unused hand slot has a legal placement on
\* the board, i.e. iff getAllLegalMoves() is non-empty; no move of
\* getAllLegalMoves() is for a used slot.
C18_HasLegalMovesIffSomeMove ==
    LET allMoves == getAllLegalMoves(Self)
    IN  /\ hasLegalMoves(Self) <=> RefSomeLegal(Self)
        /\ hasLegalMoves(Self) <=> allMoves # <<>>
        /\ \A k \in 1 .. Len(allMoves) :
              /\ ~handUsed_[allMoves[k].pieceIndex]
              /\ RefLegal(Self, allMoves[k].pieceIndex, allMoves[k].row, allMoves[k].col)

\* C19: with the table in use, countTerminalNodes returns what the same recursion
\* without a table returns: every value taken from the table, every value an
\* activation returns and the value the top-level call returns equal the
\* table-free count for that board at that depth, for every total depth of the
\* run, those above the 8 levels the table holds included
C19_MemoIsTransparent ==
    LET pieces == piecesOf(run.shapes)
    IN  /\ ev.kind \in {"hit", "return"}
            => ev.value = countTerminalNodesNoMemo(ev.board, ev.depth, depthD, pieces)
        /\ result # -1
            => result = countTerminalNodesNoMemo(run.board, 0, depthD, pieces)

\* C19 witness: a value is taken from the table in a search of more than 8 levels
\* that has already stored a node of the last level the table holds
C19_Witness ==
    /\ depthD > MAX_DEPTH
    /\ ev.kind = "hit"
    /\ ev.value > 1
    /\ tt[MAX_DEPTH - 1] # {}

\* C20 (as stated): over the full catalog, a node with no remaining depth counts 1,
\* and every other node counts the sum, over every catalog shape and every legal
\* anchor of it, of the count of the grid place-and-clear produces with one less
\* remaining depth
C20_CountIsSumOverPlays ==
    FullCatalogRun =>
        /\ ev.kind = "leaf" => ev.value = 1 /\ ev.depth = depthD
        /\ ev.kind = "return"
            => ev.value = RefLeafSum(ev.board, depthD - ev.depth)
        /\ result # -1 => result = RefLeafSum(run.board, depthD)

\* C21: an activation with remaining depth whose grid admits no placement returns
\* exactly 1; every value countTerminalNodes returns (at the depth limit, from the
\* table, after the loops) is at least 1; and total_terminal_nodes is 0 after the
\* loops exactly when no placement passed canPlace, which over the full catalog
\* is exactly when no catalog shape has a legal anchor on the grid
C21_DeadEndCountsOne ==
    [][ /\ ev'.kind \in {"leaf", "hit", "return"} => ev'.value >= 1
        /\ (ev'.kind = "return" /\ stack' # stack) =>
              LET f      == stack[Len(stack)]
                  pieces == piecesOf(run.shapes)
                  none   == perftPlacements(f.board, pieces) = {}
              IN  /\ f.depth < depthD
                  /\ f.total = 0 <=> none
                  /\ none => ev'.value = 1
                  /\ FullCatalogRun => (none <=> RefPlays(f.board) = {}) ]_vars

\* C22: over the full catalog the counts per depth are, from the empty grid, 1 and
\* 1421, the latter being the number of (shape, legal anchor) pairs of the catalog
\* on the empty board; from the grid with rows 1..6 x cols 1..6 occupied, 1, 76
\* and 4380; these are the values BASELINE holds, so main returns 0
C22_BaselineHolds ==
    FullCatalogRun =>
        /\ run.board = {} =>
              /\ \A k \in 1 .. Len(counts) : k <= 2 => counts[k] = <<1, 1421>>[k]
              /\ Len(counts) >= 2 => counts[2] = Cardinality(RefPlays({}))
        /\ run.board = { b \in Bits : (b \div 8) \in 1 .. 6 /\ (b % 8) \in 1 .. 6 } =>
              \A k \in 1 .. Len(counts) : k <= 3 => counts[k] = <<1, 76, 4380>>[k]
        /\ \A k \in 1 .. Len(counts) :
              k <= Len(BASELINE[modeStrOf(argv)]) /\ argv # <<>>
                  => counts[k] = BASELINE[modeStrOf(argv)][k]
        /\ pc = "exit" => status = 0

\* The text holds no digit at all
NonNumericText(s) == \A i \in 1 .. Len(s) : ~IsDigit(s[i])

\* The text is a minus sign followed by digits only, not all of them 0
NegativeNumber(s) ==
    /\ Len(s) >= 2
    /\ s[1] = "-"
    /\ \A i \in 2 .. Len(s) : IsDigit(s[i])
    /\ \E i \in 2 .. Len(s) : s[i] # "0"

\* C23 as claimed: when the depth argument is non-numeric text or a negative
\* number, main returns a failure status and no search is run: once main has read
\* its arguments it has returned 1, with no count printed and no call of
\* countTerminalNodes made
C23_BadDepthIsUserError ==
    (argv # <<>> /\ pc # "main" /\ (NonNumericText(argv[1]) \/ NegativeNumber(argv[1])))
        => /\ pc = "exit"
           /\ status = 1
           /\ counts = <<>>
           /\ ev.kind = "none"

\* C24: every top-level call of countTerminalNodes finds all levels of the table
\* empty; within a search the table changes only by the store of a returning
\* activation, and between two searches it is emptied; a value taken from the
\* table is an entry of the table of the running search. So no entry stored
\* during the search for one total depth is read during the search for another.
C24_TableFreshPerDepth ==
    [][ /\ (stack = <<>> /\ result = -1) => tt = ttEmpty
        /\ (stack' = <<>> /\ result' = -1) => tt' = ttEmpty
        /\ tt' # tt =>
              \/ /\ ev'.kind = "return"
                 /\ depthD' = depthD
                 /\ tt' = ttStore(tt, ev'.board, ev'.depth, ev'.value)
              \/ /\ ev'.kind = "clear"
                 /\ depthD' = depthD + 1
                 /\ tt' = ttEmpty
        /\ (ev'.kind = "hit" /\ stack' # stack) =>
              /\ <<ev'.board, ev'.value>> \in tt[ev'.depth]
              /\ depthD' = depthD ]_vars

\* C24 witness: a search of total depth 2 or more has filled the table, main has
\* cleared it and the next search is about to start
C24_Witness ==
    /\ ev.kind = "clear"
    /\ depthD >= 3
    /\ depthD <= run.limit
    /\ ev.value > 1
    /\ stack = <<>>
    /\ result = -1
    /\ tt = ttEmpty

\* C25 as claimed: the table is indexed by remaining depth: an entry stored in
\* level k under grid g is the leaf count rooted at g with k levels of remaining
\* depth, and a lookup uses the node's remaining depth as the level
C25_MemoKeyedByRemainingDepth ==
    [][ /\ (ev'.kind = "return" /\ stack' # stack /\ ev'.depth < MAX_DEPTH) =>
              \E k \in 0 .. (MAX_DEPTH - 1) :
                  /\ <<ev'.board, ev'.value>> \in tt'[k]
                  /\ <<ev'.board, ev'.value>> \notin tt[k]
                  /\ k = depthD - ev'.depth
                  /\ ev'.value = countTerminalNodesNoMemo(ev'.board, 0, k,
                                                          piecesOf(run.shapes))
        /\ (ev'.kind = "hit" /\ stack' # stack) =>
              <<ev'.board, ev'.value>> \in tt[depthD - ev'.depth] ]_vars

\* C25 (amended): the table is indexed by the depth from the root: in a search of
\* total depth D an entry stored in level k under grid g is the leaf count rooted
\* at g with D - k levels of remaining depth, and a lookup uses the node's depth
\* as the level
C25_MemoKeyedByDepthFromRoot ==
    [][ /\ (ev'.kind = "return" /\ stack' # stack /\ ev'.depth < MAX_DEPTH) =>
              LET k == ev'.depth
              IN  /\ <<ev'.board, ev'.value>> \in tt'[k]
                  /\ \A level \in DOMAIN tt : level # k => tt'[level] = tt[level]
                  /\ ev'.value = countTerminalNodesNoMemo(ev'.board, 0, depthD - k,
                                                          piecesOf(run.shapes))
        /\ (ev'.kind = "hit" /\ stack' # stack) =>
              <<ev'.board, ev'.value>> \in tt[ev'.depth] ]_vars

\* C25 witness: in a search deeper than twice its depth, an activation below the
\* root has stored its count in the level of its depth
C25_Witness ==
    /\ ev.kind = "return"
    /\ ev.depth >= 1
    /\ ev.depth < MAX_DEPTH
    /\ depthD - ev.depth > ev.depth
    /\ ev.value > 1
    /\ <<ev.board, ev.value>> \in tt[ev.depth]
    /\ <<ev.board, ev.value>> \notin tt[depthD - ev.depth]

\* No row and no column of the grid is fully occupied
NoFullLine(g) == FullRows(g) = {} /\ FullCols(g) = {}

\* C26: at every operation boundary of a Game the board has no full row and no
\* full column; and in a perft search started on a grid without full lines, the
\* grid of every activation and every grid place-and-clear produces has none
C26_NoFullLineAtBoundaries ==
    /\ NoFullLine(board_)
    /\ NoFullLine(run.board) =>
          /\ \A k \in 1 .. Len(stack) : NoFullLine(stack[k].board)
          /\ NoFullLine(ev.board)
          /\ \A level \in DOMAIN tt : \A e \in tt[level] : NoFullLine(e[1])

\* C27: on a board without full lines and for the piece mask of a call of
\* simulatePlace, simulatePlace returns the occupancy and the number of cleared
\* lines that placeAndClear produces
C27_SimulatePlaceMatchesBoard ==
    query.name = "simulatePlace" =>
        LET mask    == shiftTo(getPiece(shape), query.row, query.col)
            cleared == placeAndClear(grid, mask)
        IN  NoFullLine(grid) =>
              /\ answer.board = cleared.data
              /\ answer.lines = cleared.lines

\* C28 as claimed: in every reachable Game state, for every move and whatever its
\* mask, makeMove(move) returns the value and produces the Game that
\* placePiece(move.pieceIndex, move.row, move.col) returns and produces
C28_MakeMoveIsPlacePiece ==
    \A rq \in Requests, m \in MaskArgs :
        \A drawn \in DrawsOf(refills(Self, rq[1], rq[2], rq[3])) :
            makeMove(Self, [ pieceIndex |-> rq[1], row |-> rq[2], col |-> rq[3],
                             mask |-> m ], drawn)
                = placePiece(Self, rq[1], rq[2], rq[3], drawn)

\* C29: clearFullLines never sets a cell that was empty, and a call that follows
\* another call immediately returns 0 and leaves the board as it is
C29_ClearFullLinesIdempotent ==
    /\ LastBoardOp = "clearFullLines" => data_ \subseteq pre
    /\ bop = <<"clearFullLines", "clearFullLines">> => (lines = 0 /\ data_ = pre)

\* C29 witness: the second call has returned 0 on what the first call left of a
\* board with a full row and a full column, cells outside them remaining
C29_Witness ==
    /\ calls = 2
    /\ bop = <<"clearFullLines", "clearFullLines">>
    /\ lines = 0
    /\ data_ = pre
    /\ data_ # {}
    /\ \E b \in TestBoards :
          /\ FullRows(b) # {}
          /\ FullCols(b) # {}
          /\ data_ = RefCleared(b)

\* C30: the assertions of query and store never fail, whatever the total depth:
\* no step aborts, a value is taken from the table only for a node at a depth
\* below MAX_DEPTH, and an activation at depth MAX_DEPTH or beyond returns its
\* count with the table left as it is
C30_TableLevelsInRange ==
    [][ /\ ev'.kind # "abort"
        /\ \A k \in 1 .. Len(stack') : stack'[k].depth >= 0 /\ stack'[k].depth = k - 1
        /\ DOMAIN tt' = 0 .. (MAX_DEPTH - 1)
        /\ (ev'.kind = "hit" /\ stack' # stack) =>
              (ev'.depth >= 0 /\ ev'.depth < MAX_DEPTH)
        /\ tt' # tt /\ ev'.kind = "return" =>
              (ev'.depth >= 0 /\ ev'.depth < MAX_DEPTH)
        /\ (ev'.kind = "return" /\ stack' # stack /\ ev'.depth >= MAX_DEPTH) =>
              tt' = tt ]_vars

\* C30 witness: in a search of more than 8 levels an activation at depth 8 or
\* beyond has counted its subtree, which is not in the table
C30_Witness ==
    /\ depthD > MAX_DEPTH
    /\ ev.kind = "return"
    /\ ev.depth >= MAX_DEPTH
    /\ ev.value > 1
    /\ \A level \in DOMAIN tt : \A e \in tt[level] : level < MAX_DEPTH
    /\ Len(stack) = ev.depth

====
